---- MODULE Spec2Model ----
(***************************************************************************)
(* Model of primes_up_to<T>( n ) of sieve.hpp: the Sieve of Eratosthenes   *)
(* over a std::vector<bool>, run as a step machine whose program counter   *)
(* follows the loops of the function.                                      *)
(*                                                                         *)
(* std::size_t is W bits wide, so every std::size_t value is kept modulo   *)
(* 2^W.  The template type T is an unsigned type of T bits, T <= W (the    *)
(* input is representable in the working index type).  The allocations of  *)
(* lines 48 and 89 are taken to succeed for every size the index type      *)
(* holds: memory exhaustion, and a max_size() of the library below         *)
(* SIZE_MAX, are not part of the model.  An access to is_prime outside its *)
(* size is undefined behaviour: the build either faults, or goes on, a     *)
(* store being lost and a load yielding either flag value.                 *)
(***************************************************************************)
EXTENDS Integers, FiniteSets, Sequences, TLC

\* Width in bits of std::size_t, the working index type.
W == 6

\* std::numeric_limits<std::size_t>::max() + 1
SizeMod == 2^W

\* Widths in bits of the unsigned types T the template is instantiated with.
TWidths == {W - 2, W - 1, W}

\* std::numeric_limits<T>::max() of the t-bit unsigned type.
TMax(t) == 2^t - 1

\* static_cast<std::size_t>( x )
ToSizeT(x) == x % SizeMod

\* static_cast<T>( x ) for the t-bit unsigned type T
ToTNarrow(t, x) == x % 2^(t - 1)
ToT(t, x) == x % 2^t

\* std::size_t addition and multiplication
Add(a, b) == (a + b) % SizeMod
Mul(a, b) == (a * b) % SizeMod

VARIABLES
  T,            \* width in bits of the template type of the current call
  NDEBUG,       \* TRUE in a build with NDEBUG defined (asserts compiled out)
  n,            \* the argument
  N,            \* line 42
  is_prime,     \* line 48, a function on 0 .. size-1
  n_primes,     \* line 54
  k,            \* line 56, and the extraction loop's own k of line 91
  m,            \* line 65, and the extraction loop's own m of line 91
  check,        \* line 79
  i,            \* line 81
  primes,       \* line 89, a function on 0 .. n_primes-1; the returned value
  pc,           \* position in the function
  last_T,       \* width of T of the caller's previous call (0: none)
  last_primes   \* what the caller's previous call returned

vars == << T, NDEBUG, n, N, is_prime, n_primes, k, m, check, i, primes, pc,
           last_T, last_primes >>

locals == << N, is_prime, n_primes, k, m, check, i, primes >>

\* An empty std::vector
Empty == [j \in {} |-> 0]

\* std::vector<X>( size, value )
Vector(size, value) == [j \in 0 .. size - 1 |-> value]

\* Whether idx is a valid index of is_prime
InBounds(idx) == idx \in DOMAIN is_prime

\* What a load of is_prime[idx] can yield
Load(idx) == IF InBounds(idx) THEN {is_prime[idx]} ELSE BOOLEAN

\* is_prime after the store is_prime[idx] = false
Store(idx) ==
  IF InBounds(idx) THEN [is_prime EXCEPT ![idx] = FALSE] ELSE is_prime

\* The condition of the sweep loop, line 60
SweepGuardSquare(kk, NN) == Mul(kk, kk) <= NN
SweepGuard(kk, NN) == kk <= NN \div kk

Init ==
  /\ T \in TWidths
  /\ NDEBUG \in BOOLEAN
  /\ n \in 0 .. TMax(T)
  /\ N = 0
  /\ is_prime = Empty
  /\ n_primes = 0
  /\ k = 0
  /\ m = 0
  /\ check = 0
  /\ i = 0
  /\ primes = Empty
  /\ pc = "entry"
  /\ last_T = 0
  /\ last_primes = Empty

\* Lines 38-48: the early return, or N and the marking array
Entry ==
  /\ pc = "entry"
  /\ IF n < 2
       THEN /\ primes' = Empty
            /\ pc' = "done"
            /\ UNCHANGED << N, is_prime >>
       ELSE /\ N' = ToSizeT(n)
            /\ is_prime' = Vector(Add(N', 1), TRUE)
            /\ pc' = "clear0"
            /\ UNCHANGED primes
  /\ UNCHANGED << T, NDEBUG, n, n_primes, k, m, check, i, last_T, last_primes >>

\* Line 49
Clear0 ==
  /\ pc = "clear0"
  /\ is_prime' = Store(0)
  /\ pc' = "clear1"
  /\ UNCHANGED << T, NDEBUG, n, N, n_primes, k, m, check, i, primes,
                  last_T, last_primes >>

\* Lines 50-56
Clear1 ==
  /\ pc = "clear1"
  /\ is_prime' = Store(1)
  /\ n_primes' = 0
  /\ k' = 2
  /\ pc' = "sweep"
  /\ UNCHANGED << T, NDEBUG, n, N, m, check, i, primes, last_T, last_primes >>

\* Lines 60-65: one test of the sweep loop, up to the start of the inner loop
Sweep ==
  /\ pc = "sweep"
  /\ IF SweepGuard(k, N)
       THEN \E b \in Load(k) :
              IF b
                THEN /\ n_primes' = Add(n_primes, 1)
                     /\ m' = Mul(k, k)
                     /\ pc' = "mark"
                     /\ UNCHANGED k
                ELSE /\ k' = Add(k, 1)
                     /\ pc' = "sweep"
                     /\ UNCHANGED << n_primes, m >>
       ELSE /\ pc' = "count"
            /\ UNCHANGED << n_primes, k, m >>
  /\ UNCHANGED << T, NDEBUG, n, N, is_prime, check, i, primes,
                  last_T, last_primes >>

\* Lines 65-67 (and ++k of line 60 when the inner loop exits)
Mark ==
  /\ pc = "mark"
  /\ IF m <= N
       THEN /\ is_prime' = Store(m)
            /\ m' = Add(m, k)
            /\ pc' = "mark"
            /\ UNCHANGED k
       ELSE /\ k' = Add(k, 1)
            /\ pc' = "sweep"
            /\ UNCHANGED << is_prime, m >>
  /\ UNCHANGED << T, NDEBUG, n, N, n_primes, check, i, primes,
                  last_T, last_primes >>

\* Lines 72-81
Count ==
  /\ pc = "count"
  /\ IF k <= N
       THEN /\ \E b \in Load(k) :
                 n_primes' = IF b THEN Add(n_primes, 1) ELSE n_primes
            /\ k' = Add(k, 1)
            /\ pc' = "count"
            /\ UNCHANGED << check, i >>
       ELSE /\ pc' = IF NDEBUG THEN "alloc" ELSE "check"
            /\ check' = 0
            /\ i' = 2
            /\ UNCHANGED << n_primes, k >>
  /\ UNCHANGED << T, NDEBUG, n, N, is_prime, m, primes, last_T, last_primes >>

\* Lines 81-85, compiled only without NDEBUG
Check ==
  /\ pc = "check"
  /\ IF i <= N
       THEN /\ \E b \in Load(i) :
                 check' = IF b THEN Add(check, 1) ELSE check
            /\ i' = Add(i, 1)
            /\ pc' = "check"
       ELSE /\ pc' = IF check = n_primes THEN "alloc" ELSE "abort"
            /\ UNCHANGED << check, i >>
  /\ UNCHANGED << T, NDEBUG, n, N, is_prime, n_primes, k, m, primes,
                  last_T, last_primes >>

\* Lines 89-91: the result vector and the extraction loop's m and k
Alloc ==
  /\ pc = "alloc"
  /\ primes' = Vector(n_primes, 0)
  /\ m' = 0
  /\ k' = 2
  /\ pc' = "extract"
  /\ UNCHANGED << T, NDEBUG, n, N, is_prime, n_primes, check, i,
                  last_T, last_primes >>

\* Lines 91-100
Extract ==
  /\ pc = "extract"
  /\ IF m < n_primes
       THEN IF ~NDEBUG /\ ~(k <= N)
              THEN /\ pc' = "abort"
                   /\ UNCHANGED << k, m, primes >>
              ELSE /\ \E b \in Load(k) :
                        IF b
                          THEN /\ primes' = [primes EXCEPT ![m] = ToT(T, k)]
                               /\ m' = m + 1
                          ELSE UNCHANGED << m, primes >>
                   /\ k' = Add(k, 1)
                   /\ pc' = "extract"
       ELSE /\ pc' = "done"
            /\ UNCHANGED << k, m, primes >>
  /\ UNCHANGED << T, NDEBUG, n, N, is_prime, n_primes, check, i,
                  last_T, last_primes >>

\* The index of is_prime the next step of the function accesses, if any
Access ==
  CASE pc = "clear0" -> {0}
    [] pc = "clear1" -> {1}
    [] pc = "sweep" -> IF SweepGuard(k, N) THEN {k} ELSE {}
    [] pc = "mark" -> IF m <= N THEN {m} ELSE {}
    [] pc = "count" -> IF k <= N THEN {k} ELSE {}
    [] pc = "check" -> IF i <= N THEN {i} ELSE {}
    [] pc = "extract" -> IF m < n_primes /\ (NDEBUG \/ k <= N) THEN {k} ELSE {}
    [] OTHER -> {}

\* An access outside the array that the build does not survive
Fault ==
  /\ \E idx \in Access : ~InBounds(idx)
  /\ pc' = "fault"
  /\ UNCHANGED << T, NDEBUG, n, locals, last_T, last_primes >>

\* The caller calls again with the same n and another unsigned type that
\* holds n
Recall ==
  /\ pc = "done"
  /\ last_T = 0
  /\ \E t \in TWidths \ {T} :
       /\ n <= TMax(t)
       /\ T' = t
  /\ last_T' = T
  /\ last_primes' = primes
  /\ N' = 0
  /\ is_prime' = Empty
  /\ n_primes' = 0
  /\ k' = 0
  /\ m' = 0
  /\ check' = 0
  /\ i' = 0
  /\ primes' = Empty
  /\ pc' = "entry"
  /\ UNCHANGED << NDEBUG, n >>

Next ==
  \/ Entry
  \/ Clear0
  \/ Clear1
  \/ Sweep
  \/ Mark
  \/ Count
  \/ Check
  \/ Alloc
  \/ Extract
  \/ Fault
  \/ Recall

Spec == Init /\ [][Next]_vars

(***************************************************************************)
(* Reference definitions, independent of the sieve                         *)
(***************************************************************************)

\* Trial division
IsPrimeRef(p) == p >= 2 /\ \A d \in 2 .. p - 1 : p % d # 0

\* How many positions of the result hold the value p
Occurrences(p) == Cardinality({j \in DOMAIN primes : primes[j] = p})

\* The number of flagged positions in 2 .. N
Flagged == Cardinality({j \in 2 .. N : InBounds(j) /\ is_prime[j]})

\* The filled prefix of the result: 0 .. m-1 while extracting, all of it
\* once returned
Filled == IF pc = "extract" THEN 0 .. m - 1 ELSE DOMAIN primes

\* C1: the returned sequence holds exactly the primes in 2 .. n, each once,
\* and nothing else.
C1_ExactlyThePrimes ==
  pc = "done" =>
    /\ \A j \in DOMAIN primes : IsPrimeRef(primes[j]) /\ primes[j] <= n
    /\ \A p \in 0 .. n : Occurrences(p) = IF IsPrimeRef(p) THEN 1 ELSE 0

\* C2: the filled prefix of the result is strictly increasing after every
\* step of the extraction loop, and so is the returned sequence.
C2_StrictlyIncreasing ==
  pc \in {"extract", "done"} =>
    \A a, b \in Filled : a < b => primes[a] < primes[b]

\* C3: the result is empty exactly when n < 2; then the marking array was
\* never allocated or touched; for n >= 2 the first element is 2.
C3_EmptyIffBelowTwo ==
  pc = "done" =>
    /\ (primes = Empty) <=> (n < 2)
    /\ n < 2 => is_prime = Empty /\ N = 0
    /\ n >= 2 => 0 \in DOMAIN primes /\ primes[0] = 2

\* C4: no call reaches a runtime failure (a fault or a failed assertion).
C4_NoRuntimeFailure == pc \notin {"fault", "abort"}

\* C6: once the counting loop has finished, n_primes is the number of
\* flagged positions in 2 .. N, and the debug assertion does not fail.
C6_CountMatchesFlags ==
  /\ pc \in {"check", "alloc", "extract"} => n_primes = Flagged
  /\ pc = "done" /\ n >= 2 => n_primes = Flagged
  /\ pc = "check" /\ ~(i <= N) => check = n_primes

\* C7: the marking array has n+1 flags, every access is to an index in
\* 0 .. N inside the array, and assert( k <= N ) does not fail.
C7_AccessesInRange ==
  /\ pc \notin {"entry", "fault"} /\ n >= 2 => DOMAIN is_prime = 0 .. n
  /\ \A idx \in Access : idx \in 0 .. N /\ InBounds(idx)
  /\ pc = "extract" /\ m < n_primes => k <= N

\* C8: for the N of the call and every k >= 2 of the index type, the sweep
\* guard k <= N / k holds exactly when the true product k*k is at most N;
\* so the start value k*k of the inner loop is at most N and is not reduced
\* modulo 2^W.
C8_GuardIsSquareTest ==
  /\ pc = "sweep" =>
       \A kk \in 2 .. SizeMod - 1 : SweepGuard(kk, N) <=> kk * kk <= N
  /\ pc = "mark" => k * k <= N /\ Mul(k, k) = k * k

\* C8 witness: the sweep loop is tested with a k whose square exceeds N but,
\* reduced modulo 2^W, would not; the guard is false there.
C8_Witness ==
  /\ pc = "sweep"
  /\ InBounds(k)
  /\ k * k > N
  /\ Mul(k, k) <= N
  /\ ~SweepGuard(k, N)

\* C9: in a call whose marking array holds its N+1 flags: at every test of
\* the sweep loop the flags below k*k are exact, no prime is ever cleared,
\* and from the exit of the sweep on the flags are exact on all of 2 .. N.
C9_FlagsExactBelowSquare ==
  InBounds(N) =>
    /\ pc \in {"sweep", "mark"} =>
         \A j \in 2 .. N :
           /\ IsPrimeRef(j) => is_prime[j]
           /\ pc = "sweep" /\ j < k * k => (is_prime[j] <=> IsPrimeRef(j))
    /\ pc \in {"count", "check", "alloc", "extract"} =>
         \A j \in 2 .. N : is_prime[j] <=> IsPrimeRef(j)

\* C10: in a call whose marking array holds its N+1 flags, the step m += k
\* of the inner loop never wraps: while the loop runs, m is a multiple of k,
\* at least k*k (so never 0, 1 or k itself), at most one step beyond N, and
\* the next m + k is below 2^W.
C10_MarkStepNeverWraps ==
  pc = "mark" /\ InBounds(N) =>
    /\ m % k = 0
    /\ k * k <= m
    /\ m <= N + k
    /\ m <= N => m + k < SizeMod

====
